---- MODULE Spec2Model ----
(***************************************************************************)
(* A model of toggl-export (src/src/main.js).  The file holds two versions *)
(* of the script: the moment-based one (lines 1-288) and the datejs-based  *)
(* one (lines 290-568).  Both are modelled; the variable `variant' says    *)
(* which of the two is running.                                            *)
(*                                                                         *)
(* JavaScript strings are sequences of one-character strings, so that      *)
(* concatenation, joining and matching are computed as the code computes   *)
(* them.  Objects live in `heap' (a sequence of records, an object's        *)
(* reference being its index), so that in-place writes are visible.        *)
(***************************************************************************)
EXTENDS Integers, Sequences, FiniteSets, TLC

VARIABLES
  pc,            \* position of the running script / of the call under check
  variant,       \* "moment" (lines 1-288) or "datejs" (lines 290-568)
  ms,            \* formatDuration: the argument
  label,         \* formatDuration: the returned string
  heap,          \* the objects: heap[r] is the object with reference r
  input,         \* the heap as it was handed to the first call (history)
  entries,       \* processEntries: the array of raw entries (references)
  repositories,  \* processEntries: the Map from repository name to id
  results,       \* what each call of processEntries returned, in call order
  options,       \* main: the command line (help, config)
  configFile,    \* main: "present" or "missing" (readConfig gives undefined)
  page,          \* fetchTogglEntries: the page whose request is in flight
  frames,        \* fetchTogglEntries: json.data of each call awaiting the next
  ret,           \* fetchTogglEntries: the value being returned up the calls
  requests,      \* the pages requested from toggl.com, in order (history)
  served,        \* the data toggl.com answered page by page (history)
  keyPressed,    \* the key readKey resolved with ("" before)
  issued,        \* the records a logTime request was issued for, in order
  inFlight,      \* the records whose logTime request awaits its response
  submitted,     \* the records whose logTime request succeeded, in order
  fetched,       \* the fetches that succeeded: "repos", "entries" (history)
  failure,       \* the request that failed: "", "repos", "entries" or "logTime"
  stdout         \* what the script wrote, one tag per message

\* ------------------------------------------------------------------ bounds
MaxMinutes == 620
MaxDescLen == 5
MaxEntries == 2
MaxCalls == 2
MaxPages == 3
MaxPageLen == 1

\* --------------------------------------------------------------- strings
Digit == <<"0", "1", "2", "3", "4", "5", "6", "7", "8", "9">>

RECURSIVE NatToString(_)
NatToString(n) ==
  IF n < 10 THEN <<Digit[n + 1]>>
  ELSE NatToString(n \div 10) \o <<Digit[(n % 10) + 1]>>

\* sprintf's %d: a decimal integer, a minus sign before a negative one.
sprintf_d(n) == IF n < 0 THEN <<"-">> \o NatToString(-n) ELSE NatToString(n)

\* sprintf's %02d: %d, padded on the left with zeros to a width of two.
sprintf_02d(n) ==
  LET s == sprintf_d(n)
  IN  IF Len(s) < 2 THEN <<"0">> \o s ELSE s

\* JavaScript's %: the remainder takes the sign of the dividend.
JsRem(a, b) == IF a >= 0 THEN a % b ELSE -((-a) % b)

\* Math.floor(x / d) in the place of Math.round.
MathRoundDivTruncating(x, d) == x \div d

\* Math.round(x / d) for an integer x and d > 0: floor(x/d + 1/2).
MathRoundDiv(x, d) == (2 * x + d) \div (2 * d)

formatDuration(milliSeconds) ==
  LET minutes == MathRoundDiv(milliSeconds, 60000)
      h == minutes \div 60
      m == JsRem(minutes, 60)
  IN  sprintf_d(h) \o <<"h", " ">> \o sprintf_02d(m) \o <<"m">>

\* ------------------------------------------------------- JavaScript values
Undefined == "undefined"
Null == "null"
\* A null element of an array of references.
NullRef == 0

\* Map.prototype.get: undefined for a key the Map does not hold.
MapGet(map, key) == IF key \in DOMAIN map THEN map[key] ELSE Undefined

\* Array.prototype.join over an array of strings.
RECURSIVE join(_, _)
join(parts, sep) ==
  IF Len(parts) = 0 THEN <<>>
  ELSE IF Len(parts) = 1 THEN parts[1]
  ELSE parts[1] \o sep \o join(Tail(parts), sep)

RECURSIVE sum(_)
sum(numbers) == IF Len(numbers) = 0 THEN 0 ELSE Head(numbers) + sum(Tail(numbers))

\* ---------------------------------------------------------------- dates
DayMs == 86400000

\* moment(start).startOf('day') and new Date(start).clearTime(): the time of
\* day is cleared.  A timestamp is the milliseconds of local time.
startOfDay(start) == start - (start % DayMs)

\* String(date) and date.format(): a rendering at the resolution of a second.
DateToString(date) == NatToString(date \div 1000)

\* ------------------------------------------- /^#(\d+) (.*)$/ on a string
IsDigit(c) == c \in {"0", "1", "2", "3", "4", "5", "6", "7", "8", "9"}
LineTerminators == {"\n", "\r"}

\* The length of the longest run of digits of s that starts at index i.
RECURSIVE DigitRun(_, _)
DigitRun(s, i) ==
  IF i <= Len(s) /\ IsDigit(s[i]) THEN 1 + DigitRun(s, i + 1) ELSE 0

NoMatch == [matched |-> FALSE, groups |-> <<>>]

\* Whether /^#(\d+) (.*)$/ matches: \d+ takes the whole run of digits (a
\* shorter run is followed by a digit, never by the space), .* takes every
\* character but a line terminator, and $ (no m flag) is the end of the string.
Matches(description) ==
  /\ Len(description) >= 1
  /\ description[1] = "#"
  /\ LET k == DigitRun(description, 2)
     IN  /\ k >= 1
         /\ Len(description) >= k + 2
         /\ description[k + 2] = " "
         /\ \A i \in (k + 3)..Len(description) :
               description[i] \notin LineTerminators

\* Leading zeros dropped, as a numeric reading of the issue number would.
RECURSIVE StripZeros(_)
StripZeros(s) == IF Len(s) > 1 /\ s[1] = "0" THEN StripZeros(Tail(s)) ELSE s

\* Leading spaces dropped, as trimming the comment would.
RECURSIVE TrimLeft(_)
TrimLeft(s) == IF Len(s) > 0 /\ s[1] = " " THEN TrimLeft(Tail(s)) ELSE s

MatchGroupsNormalised(description) ==
  LET k == DigitRun(description, 2)
  IN  <<description,
        StripZeros(SubSeq(description, 2, k + 1)),
        TrimLeft(SubSeq(description, k + 3, Len(description)))>>

\* The array String.prototype.match returns: the match and its two groups.
MatchGroups(description) ==
  LET k == DigitRun(description, 2)
  IN  <<description,
        SubSeq(description, 2, k + 1),
        SubSeq(description, k + 3, Len(description))>>

matchNonEmptyComment(description) ==
  IF Matches(description) /\ Len(MatchGroups(description)[3]) >= 1
  THEN [matched |-> TRUE, groups |-> MatchGroups(description)]
  ELSE NoMatch

\* entry.description.match(/^#(\d+) (.*)$/)
match(description) ==
  IF Matches(description)
  THEN [matched |-> TRUE, groups |-> MatchGroups(description)]
  ELSE NoMatch

\* -------------------------------------------------------- processEntries
NullEntry == [isNull |-> TRUE]

\* `${entry.client}/${entry.project}`
repositoryName(entry) == entry.client \o <<"/">> \o entry.project

\* The callback of entries.map, moment version: null unless the id is neither
\* null nor undefined (!= null) and the description matches.
parseEntryMoment(entry, repos) ==
  LET repository == repositoryName(entry)
      repositoryId == MapGet(repos, repository)
      description == match(entry.description)
  IN  IF repositoryId # Null /\ repositoryId # Undefined /\ description.matched
      THEN [isNull |-> FALSE,
            obj |-> [repository |-> repository,
                     id |-> repositoryId,
                     issueNumber |-> description.groups[2],
                     comment |-> description.groups[3],
                     date |-> startOfDay(entry.start),
                     dur |-> entry.dur]]
      ELSE NullEntry

\* The callback of entries.map, datejs version: null if the id is undefined
\* (=== undefined) or the description does not match.
parseEntryDatejs(entry, repos) ==
  LET repository == repositoryName(entry)
      description == match(entry.description)
  IN  IF MapGet(repos, repository) = Undefined \/ ~description.matched
      THEN NullEntry
      ELSE [isNull |-> FALSE,
            obj |-> [repository |-> repository,
                     id |-> MapGet(repos, repository),
                     issueNumber |-> description.groups[2],
                     comment |-> description.groups[3],
                     dateTime |-> startOfDay(entry.start),
                     duration |-> entry.dur]]

parseEntry(entry, repos, v) ==
  IF v = "moment" THEN parseEntryMoment(entry, repos)
  ELSE parseEntryDatejs(entry, repos)

\* entries.map(callback) from index i on: every object the callback returns is
\* a new object of the heap; a null is NullRef.
RECURSIVE mapEntries(_, _, _, _, _)
mapEntries(h, es, repos, v, i) ==
  IF i > Len(es) THEN [heap |-> h, refs |-> <<>>]
  ELSE LET p == parseEntry(h[es[i]], repos, v)
           h2 == IF p.isNull THEN h ELSE Append(h, p.obj)
           r == IF p.isNull THEN NullRef ELSE Len(h2)
           rest == mapEntries(h2, es, repos, v, i + 1)
       IN  [heap |-> rest.heap, refs |-> <<r>> \o rest.refs]

\* As mapEntries, but the callback writes the parsed fields into the raw entry
\* and returns that entry.
RECURSIVE mapEntriesInPlace(_, _, _, _, _)
mapEntriesInPlace(h, es, repos, v, i) ==
  IF i > Len(es) THEN [heap |-> h, refs |-> <<>>]
  ELSE LET p == parseEntry(h[es[i]], repos, v)
           h2 == IF p.isNull THEN h
                 ELSE [h EXCEPT ![es[i]] = p.obj @@ h[es[i]]]
           r == IF p.isNull THEN NullRef ELSE es[i]
           rest == mapEntriesInPlace(h2, es, repos, v, i + 1)
       IN  [heap |-> rest.heap, refs |-> <<r>> \o rest.refs]

parsedEntriesInPlace(h, es, repos, v) == mapEntriesInPlace(h, es, repos, v, 1)

\* const parsedEntries = entries.map(...)
parsedEntries(h, es, repos, v) == mapEntries(h, es, repos, v, 1)

\* _.compact: the array without its null elements.
compact(refs) == SelectSeq(refs, LAMBDA r : r # NullRef)

\* The day of a parsed entry: `date' (moment) or `dateTime' (datejs).
dayOf(obj, v) == IF v = "moment" THEN obj.date ELSE obj.dateTime

\* [entry.repository, entry.issueNumber, entry.comment, <day>].join('$')
groupKey(obj, v) ==
  join(<<obj.repository, obj.issueNumber, obj.comment,
         DateToString(dayOf(obj, v))>>, <<"$">>)

\* The elements of a sequence, each once, in the order of first occurrence
\* (the order in which the keys of an object were created).
RECURSIVE Distinct(_)
Distinct(s) ==
  IF Len(s) = 0 THEN <<>>
  ELSE LET front == Distinct(SubSeq(s, 1, Len(s) - 1))
           last == s[Len(s)]
       IN  IF \E i \in 1..Len(front) : front[i] = last THEN front
           ELSE Append(front, last)

\* _.values(_.groupBy(filteredEntries, key)): one array per key, the keys in
\* the order of first occurrence, the members in the order of the input.
groupBy(h, refs, v) ==
  LET keys == Distinct([i \in 1..Len(refs) |-> groupKey(h[refs[i]], v)])
  IN  [g \in 1..Len(keys) |->
         SelectSeq(refs, LAMBDA r : groupKey(h[r], v) = keys[g])]

\* The number each member of a group contributes to _.sum.
rawDuration(obj, v) == IF v = "moment" THEN obj.dur ELSE obj.duration

\* The callback of groupedEntries.map: the total is written into the first
\* member of the group, which is returned.
aggregated(obj, totalDuration, v) ==
  IF v = "moment"
  THEN [dur |-> totalDuration,
        duration |-> formatDuration(totalDuration),
        dateTime |-> DateToString(obj.date)] @@ obj
  ELSE [obj EXCEPT !.duration = formatDuration(totalDuration)]

\* groupedEntries.map(callback) from group i on.
RECURSIVE aggregateGroups(_, _, _, _)
aggregateGroups(h, groups, v, i) ==
  IF i > Len(groups) THEN [heap |-> h, refs |-> <<>>]
  ELSE LET entry == groups[i]
           totalDuration ==
             sum([j \in 1..Len(entry) |-> rawDuration(h[entry[j]], v)])
           h2 == [h EXCEPT ![entry[1]] = aggregated(h[entry[1]], totalDuration, v)]
           rest == aggregateGroups(h2, groups, v, i + 1)
       IN  [heap |-> rest.heap, refs |-> <<entry[1]>> \o rest.refs]

\* processEntries(entries, repositories): the heap after the call and the
\* array it returns.
processEntries(h, es, repos, v) ==
  LET parsed == parsedEntries(h, es, repos, v)
      filteredEntries == compact(parsed.refs)
      groupedEntries == groupBy(parsed.heap, filteredEntries, v)
  IN  aggregateGroups(parsed.heap, groupedEntries, v, 1)

mainVars == <<options, configFile, page, frames, ret, requests, served, keyPressed,
              issued, inFlight, submitted, fetched, failure, stdout>>
vars == <<pc, variant, ms, label, heap, input, entries, repositories, results, mainVars>>

Variants == {"moment", "datejs"}

\* What the variables of the other specifications hold in one that does not
\* use them.
NoFormat == ms = 0 /\ label = <<>>
NoProcess ==
  heap = <<>> /\ input = <<>> /\ entries = <<>> /\ repositories = <<>> /\ results = <<>>
NoMain ==
  /\ options = [help |-> FALSE, config |-> FALSE]
  /\ configFile = "present"
  /\ page = 0 /\ frames = <<>> /\ ret = <<>> /\ requests = <<>> /\ served = <<>>
  /\ keyPressed = ""
  /\ issued = <<>> /\ inFlight = {} /\ submitted = <<>>
  /\ fetched = {}
  /\ failure = ""
  /\ stdout = <<>>

\* ----------------------------------------------- formatDuration, alone
Remainders == {0, 1, 29999, 30000, 30001, 59500, 59999}
MsInputs == {60000 * k + r : k \in 0..MaxMinutes, r \in Remainders}

InitFormat ==
  /\ pc = "format"
  /\ variant \in Variants
  /\ ms \in MsInputs
  /\ label = <<>>
  /\ NoProcess
  /\ NoMain

CallFormatDuration ==
  /\ pc = "format"
  /\ label' = formatDuration(ms)
  /\ pc' = "formatted"
  /\ UNCHANGED <<variant, ms, heap, input, entries, repositories, results, mainVars>>

NextFormat == CallFormatDuration

SpecFormat == InitFormat /\ [][NextFormat]_vars

\* ----------------------------------------------- processEntries, alone
SeqsUpTo(S, n) == UNION {[1..k -> S] : k \in 0..n}

RawEntry(client, project, description, start, dur) ==
  [client |-> client, project |-> project, description |-> description,
   start |-> start, dur |-> dur]

\* One call of processEntries on the inputs as they are; a second call is a
\* call "on the same inputs" of the caller.
CallProcessEntries ==
  /\ pc = "process"
  /\ Len(results) < MaxCalls
  /\ LET r == processEntries(heap, entries, repositories, variant)
     IN  /\ heap' = r.heap
         /\ results' = Append(results, r.refs)
  /\ UNCHANGED <<pc, variant, ms, label, input, entries, repositories, mainVars>>

NextProcess == CallProcessEntries

\* Every description of at most MaxDescLen characters, in a single entry of a
\* repository the index resolves.
IdNumberZero == "0"
Chars == {"#", "0", "1", " ", "a", "$", "\n"}
NameAB == <<"a", "/", "b">>
NameAB1 == <<"a", "/", "b", "$", "1">>

InitParse ==
  /\ pc = "process"
  /\ variant \in Variants
  /\ NoFormat
  /\ \E d \in SeqsUpTo(Chars, MaxDescLen) :
        heap = <<RawEntry(<<"a">>, <<"b">>, d, 3600000, 1800000)>>
  /\ input = heap
  /\ entries = <<1>>
  /\ repositories \in {(NameAB :> "R1"), (NameAB :> IdNumberZero)}
  /\ results = <<>>
  /\ NoMain

SpecParse == InitParse /\ [][NextProcess]_vars

\* Lists of at most MaxEntries entries of two repositories (one name holds
\* the separator '$'), with an index that resolves a/b to every kind of id or
\* does not hold it.
Descriptions ==
  { <<"#", "1", " ", "2", "$", "c">>,
    <<"#", "2", " ", "c">>,
    <<"#", "1", " ", "c">>,
    <<"c">> }
\* A start and a duration: two on the first day, one on the second.
Times == {<<3600000, 1800000>>, <<7200000, 3600000>>, <<90000000, 1800000>>}
RawEntries ==
  { RawEntry(<<"a">>, p, d, t[1], t[2]) :
      p \in {<<"b">>, <<"b", "$", "1">>}, d \in Descriptions, t \in Times }

IdValues == {Undefined, Null, IdNumberZero, "R1"}
RepositoryIndexes ==
  {(NameAB1 :> "R2")} \cup {(NameAB :> id) @@ (NameAB1 :> "R2") : id \in IdValues}

InitProcess ==
  /\ pc = "process"
  /\ variant \in Variants
  /\ NoFormat
  /\ heap \in SeqsUpTo(RawEntries, MaxEntries)
  /\ input = heap
  /\ entries = [i \in 1..Len(heap) |-> i]
  /\ repositories \in RepositoryIndexes
  /\ results = <<>>
  /\ NoMain

SpecProcess == InitProcess /\ [][NextProcess]_vars

\* ------------------------------------------------------------------ main
\* The run is over: process.exit() was called ("exited"), main returned
\* ("done"), or an exception left main ("crashed").
Ended == {"exited", "done", "crashed"}

\* The entries a page of the toggl.com report may hold.
EntryIssue1 == RawEntry(<<"a">>, <<"b">>, <<"#", "1", " ", "c">>, 3600000, 1800000)
EntryIssue2 == RawEntry(<<"a">>, <<"b">>, <<"#", "2", " ", "c">>, 90000000, 3600000)
EntryNoTag == RawEntry(<<"a">>, <<"b">>, <<"c">>, 3600000, 1800000)
PageData == SeqsUpTo({EntryIssue1, EntryIssue2, EntryNoTag}, MaxPageLen)

\* The answers of /api/repos.
RepoListings ==
  { <<>>,
    <<[name |-> NameAB, id |-> "R1"]>>,
    <<[name |-> NameAB, id |-> Null]>>,
    <<[name |-> NameAB, id |-> "R1"], [name |-> NameAB, id |-> IdNumberZero]>> }

\* new Map(pairs): a later pair of the same name replaces an earlier one.
RECURSIVE NewMap(_)
NewMap(repos) ==
  IF Len(repos) = 0 THEN <<>>
  ELSE LET last == repos[Len(repos)]
       IN  (last.name :> last.id) @@ NewMap(SubSeq(repos, 1, Len(repos) - 1))

Keys == {"y", "Y", "n", "\r"}

Init ==
  /\ pc = "main"
  /\ variant \in Variants
  /\ NoFormat
  /\ NoProcess
  /\ options \in [help : BOOLEAN, config : BOOLEAN]
  /\ configFile \in {"present", "missing"}
  /\ page = 0 /\ frames = <<>> /\ ret = <<>> /\ requests = <<>> /\ served = <<>>
  /\ keyPressed = ""
  /\ issued = <<>> /\ inFlight = {} /\ submitted = <<>>
  /\ fetched = {}
  /\ failure = ""
  /\ stdout = <<>>

fetchVars == <<page, frames, ret, requests, served>>
logVars == <<issued, inFlight, submitted>>
processVars == <<heap, input, entries, repositories, results>>

\* error(e): the message is written and process.exit() ends the run.  A
\* reason that is no string (the Error of jsonRequest's 'error' event) has no
\* .red, and the write of undefined throws before process.exit(): the
\* rejection then leaves main (and sequential, which starts no later task).
error(what) ==
  /\ failure' = what
  /\ stdout' = Append(stdout, "error")
  /\ pc' \in {"exited", "crashed"}

\* if (options.help) { printHelp(); process.exit(); }
MainHelp ==
  /\ pc = "main"
  /\ options.help
  /\ stdout' = Append(stdout, "usage")
  /\ pc' = "exited"
  /\ UNCHANGED <<variant, ms, label, processVars, options, configFile, fetchVars,
                 keyPressed, logVars, fetched, failure>>

\* if (config === undefined || options.config) { updateConfig; process.exit(); }
MainUpdateConfig ==
  /\ pc = "main"
  /\ ~options.help
  /\ configFile = "missing" \/ options.config
  /\ configFile' = "present"
  /\ stdout' = Append(stdout, "Config updated.")
  /\ pc' = "exited"
  /\ UNCHANGED <<variant, ms, label, processVars, options, fetchVars,
                 keyPressed, logVars, fetched, failure>>

\* main up to its first await: the request of fetchTimeTrackerRepos is sent.
MainFetchRepos ==
  /\ pc = "main"
  /\ ~options.help
  /\ ~(configFile = "missing" \/ options.config)
  /\ stdout' = Append(stdout, "Fetching time-tracker repositories")
  /\ pc' = "fetchRepos"
  /\ UNCHANGED <<variant, ms, label, processVars, options, configFile, fetchVars,
                 keyPressed, logVars, fetched, failure>>

\* /api/repos answered: the Map is built, ok() writes, and main goes on to
\* call fetchTogglEntries, which requests page 1.
ReposResponse ==
  /\ pc = "fetchRepos"
  /\ \E repos \in RepoListings : repositories' = NewMap(repos)
  /\ fetched' = fetched \cup {"repos"}
  /\ stdout' = stdout \o <<"OK", "Looking for time entries">>
  /\ page' = 1
  /\ requests' = Append(requests, 1)
  /\ pc' = "fetchEntries"
  /\ UNCHANGED <<variant, ms, label, heap, input, entries, results, options,
                 configFile, frames, ret, served, keyPressed, logVars, failure>>

\* /api/repos failed: .then(ok, error) calls error.
ReposFailed ==
  /\ pc = "fetchRepos"
  /\ error("repos")
  /\ UNCHANGED <<variant, ms, label, processVars, options, configFile, fetchVars,
                 keyPressed, logVars, fetched>>

\* fetchTogglEntries, json.data not empty: the call keeps json.data and calls
\* itself for page + 1.  (No page after MaxPages holds data.)
PageResponse ==
  /\ pc = "fetchEntries"
  /\ page < MaxPages
  /\ \E data \in PageData \ {<<>>} :
       /\ served' = Append(served, data)
       /\ frames' = Append(frames, data)
  /\ page' = page + 1
  /\ requests' = Append(requests, page + 1)
  /\ UNCHANGED <<pc, variant, ms, label, processVars, options, configFile, ret,
                 keyPressed, logVars, fetched, failure, stdout>>

\* fetchTogglEntries, json.data empty: return [].
PageResponseEmpty ==
  /\ pc = "fetchEntries"
  /\ served' = Append(served, <<>>)
  /\ ret' = <<>>
  /\ pc' = "returning"
  /\ UNCHANGED <<variant, ms, label, processVars, options, configFile, page, frames,
                 requests, keyPressed, logVars, fetched, failure, stdout>>

\* A page's request failed: the rejection passes through every awaiting call
\* and .then(ok, error) calls error.
PageFailed ==
  /\ pc = "fetchEntries"
  /\ frames' = <<>>
  /\ error("entries")
  /\ UNCHANGED <<variant, ms, label, processVars, options, configFile, page, ret,
                 requests, served, keyPressed, logVars, fetched>>

concatReversed(data, es) == es \o data

\* json.data.concat(entries)
concat(data, es) == data \o es

\* The innermost awaiting call gets `entries' and returns json.data.concat(entries).
FetchReturn ==
  /\ pc = "returning"
  /\ frames # <<>>
  /\ ret' = concat(frames[Len(frames)], ret)
  /\ frames' = SubSeq(frames, 1, Len(frames) - 1)
  /\ UNCHANGED <<pc, variant, ms, label, processVars, options, configFile, page,
                 requests, served, keyPressed, logVars, fetched, failure, stdout>>

\* The outermost call has returned: ok() writes, main calls processEntries on
\* the entries, exits on an empty result and prints and prompts otherwise.
FetchResolved ==
  /\ pc = "returning"
  /\ frames = <<>>
  /\ fetched' = fetched \cup {"entries"}
  /\ LET togglEntries == [i \in 1..Len(ret) |-> i]
         r == processEntries(ret, togglEntries, repositories, variant)
     IN  /\ input' = ret
         /\ entries' = togglEntries
         /\ heap' = r.heap
         /\ results' = <<r.refs>>
         /\ IF Len(r.refs) = 0
            THEN /\ stdout' = stdout \o <<"OK", "Looks like you didn't work at all.">>
                 /\ pc' = "exited"
            ELSE /\ stdout' = stdout \o <<"OK", "Looks like you actually did some work.",
                                          "Does that sound about right? (y/N)">>
                 /\ pc' = "readKey"
  /\ UNCHANGED <<variant, ms, label, repositories, options, configFile, fetchVars,
                 keyPressed, logVars, failure>>

\* The tasks sequential starts at once, and those it starts when task i of n
\* has resolved: one task at a time, in the order of the array.
startedAtOnce(n) == <<1>>
startedAfter(i, n) == IF i < n THEN <<i + 1>> ELSE <<>>

SeqToSet(q) == {q[i] : i \in 1..Len(q)}

ProceedUnlessNo(k) == k # "n"

\* await readKey() !== 'y' is false
Proceed(k) == k = "y"

\* The key arrived: anything but 'y' ends the run; 'y' starts the submission.
ReadKey ==
  /\ pc = "readKey"
  /\ \E k \in Keys :
       /\ keyPressed' = k
       /\ IF ~Proceed(k)
          THEN /\ stdout' = Append(stdout, "Goodbye then.")
               /\ pc' = "exited"
               /\ UNCHANGED logVars
          ELSE /\ stdout' = stdout \o <<"Here we go:", "Logging">>
               /\ issued' = issued \o startedAtOnce(Len(results[1]))
               /\ inFlight' = SeqToSet(startedAtOnce(Len(results[1])))
               /\ pc' = "logging"
               /\ UNCHANGED submitted
  /\ UNCHANGED <<variant, ms, label, processVars, options, configFile, fetchVars,
                 fetched, failure>>

\* A logTime request succeeded: ok() writes, and sequential starts the next
\* task; after the last one main writes 'Done.' and returns.
LogTimeResponse ==
  /\ pc = "logging"
  /\ \E i \in inFlight :
       LET next == startedAfter(i, Len(results[1]))
       IN  /\ submitted' = Append(submitted, i)
           /\ issued' = issued \o next
           /\ inFlight' = (inFlight \ {i}) \cup SeqToSet(next)
           /\ IF inFlight' = {}
              THEN /\ stdout' = stdout \o <<"OK", "Done.">>
                   /\ pc' = "done"
              ELSE /\ stdout' = stdout \o <<"OK", "Logging">>
                   /\ pc' = "logging"
  /\ UNCHANGED <<variant, ms, label, processVars, options, configFile, fetchVars,
                 keyPressed, fetched, failure>>

\* As LogTimeFailed, but the failure is only reported and the next task starts.
LogTimeFailedGoesOn ==
  /\ pc = "logging"
  /\ \E i \in inFlight :
       LET next == startedAfter(i, Len(results[1]))
       IN  /\ issued' = issued \o next
           /\ inFlight' = (inFlight \ {i}) \cup SeqToSet(next)
           /\ failure' = "logTime"
           /\ stdout' = Append(stdout, "error")
           /\ pc' = IF inFlight' = {} THEN "done" ELSE "logging"
  /\ UNCHANGED <<variant, ms, label, processVars, options, configFile, fetchVars,
                 keyPressed, submitted, fetched>>

\* A logTime request failed: .then(ok, error) calls error.
LogTimeFailed ==
  /\ pc = "logging"
  /\ \E i \in inFlight : inFlight' = inFlight \ {i}
  /\ error("logTime")
  /\ UNCHANGED <<variant, ms, label, processVars, options, configFile, fetchVars,
                 keyPressed, issued, submitted, fetched>>

Next ==
  \/ MainHelp
  \/ MainUpdateConfig
  \/ MainFetchRepos
  \/ ReposResponse
  \/ ReposFailed
  \/ PageResponse
  \/ PageResponseEmpty
  \/ PageFailed
  \/ FetchReturn
  \/ FetchResolved
  \/ ReadKey
  \/ LogTimeResponse
  \/ LogTimeFailed

Spec == Init /\ [][Next]_vars

\* The returns of the awaiting calls are steps the event loop takes by itself
\* once the empty page has arrived.
FairSpec == Spec /\ WF_vars(FetchReturn)

\* ------------------------------------------------ claims on processEntries
\* The records the k-th call returned.
Out(k) == [i \in 1..Len(results[k]) |-> heap[results[k][i]]]

\* The raw entries (indices of the input) the running version accepts.
Accepted == {i \in 1..Len(input) : ~parseEntry(input[i], repositories, variant).isNull}

\* A description read as '#' D ' ' R with D its first n characters after '#'.
IssueAt(d, n) == SubSeq(d, 2, n + 1)
CommentAt(d, n) == SubSeq(d, n + 3, Len(d))
TaggedAt(d, n) ==
  /\ n >= 1
  /\ Len(d) >= n + 2
  /\ d[1] = "#"
  /\ \A i \in 2..(n + 1) : IsDigit(d[i])
  /\ d[n + 2] = " "

\* The aggregation key of an accepted raw entry, as a 4-tuple.
KeyTuple(e) ==
  LET n == CHOOSE n \in 1..Len(e.description) : TaggedAt(e.description, n)
  IN  <<repositoryName(e), IssueAt(e.description, n), CommentAt(e.description, n),
        e.start - (e.start % DayMs)>>
RecordTuple(r) == <<r.repository, r.issueNumber, r.comment, dayOf(r, variant)>>

\* C1 (as claimed): the output of processEntries has exactly one record per
\* distinct (repository, issueNumber, comment, day) among the accepted entries,
\* also when names and comments contain '$'.
C1_OneRecordPerTuple ==
  Len(results) >= 1 =>
    /\ Len(results[1]) = Cardinality({KeyTuple(input[i]) : i \in Accepted})
    /\ {RecordTuple(Out(1)[j]) : j \in 1..Len(results[1])}
         = {KeyTuple(input[i]) : i \in Accepted}

\* The sum of dur over a set of raw entries (indices of the input).
RECURSIVE SumDur(_)
SumDur(I) ==
  IF I = {} THEN 0
  ELSE LET i == CHOOSE i \in I : TRUE IN input[i].dur + SumDur(I \ {i})

\* The accepted entries processEntries put into the group of record r: those
\* whose joined key is that of r.
GroupOf(r) ==
  {i \in Accepted :
     groupKey(parseEntry(input[i], repositories, variant).obj, variant)
       = groupKey(r, variant)}

\* C2 (as claimed): every returned record carries the raw sum of dur of the
\* accepted entries of its group and the label formatDuration gives that sum,
\* and the raw durations of the records add up to the dur of all accepted
\* entries.
C2_RawSumAndLabel ==
  Len(results) >= 1 =>
    /\ \A j \in 1..Len(results[1]) :
         LET r == Out(1)[j]
             total == SumDur(GroupOf(r))
         IN  /\ "dur" \in DOMAIN r
             /\ r.dur = total
             /\ r.duration = formatDuration(total)
    /\ sum([j \in 1..Len(results[1]) |-> Out(1)[j].dur]) = SumDur(Accepted)

\* C4 (as claimed): no returned record carries an undefined or null
\* repository id, and an entry with a tagged description whose name resolves
\* to an id (0 included) is kept with that id (stated for a list of one entry,
\* where no other entry can share its record).
C4_NoNullId ==
  Len(results) >= 1 =>
    /\ \A j \in 1..Len(results[1]) : Out(1)[j].id \notin {Undefined, Null}
    /\ \A i \in 1..Len(input) :
         LET name == repositoryName(input[i])
         IN  (/\ Len(input) = 1
              /\ \E n \in 1..Len(input[i].description) :
                     TaggedAt(input[i].description, n)
              /\ name \in DOMAIN repositories
              /\ repositories[name] \notin {Undefined, Null})
             => \E j \in 1..Len(results[1]) :
                   /\ Out(1)[j].repository = name
                   /\ Out(1)[j].id = repositories[name]

\* C7: processEntries leaves the raw entries, their array and the index as
\* they were; a second call on the same inputs returns a value-equal set of
\* records; an empty list gives an empty list.
C7_InputsUntouched ==
  /\ SubSeq(heap, 1, Len(input)) = input
  /\ entries = [i \in 1..Len(input) |-> i]
  /\ Len(results) = 2 =>
       {Out(1)[j] : j \in 1..Len(results[1])} = {Out(2)[j] : j \in 1..Len(results[2])}
  /\ \A k \in 1..Len(results) : (input = <<>> => results[k] = <<>>)

\* Two calls were made, and the first wrote a total into the first member of
\* a group of two.
C7_Witness ==
  /\ Len(results) = 2
  /\ Len(results[1]) = 1
  /\ Cardinality(Accepted) = 2

\* --------------------------------------------- claims on a single entry
TheDescription == input[1].description

\* '#', one or more digits, one space, then one or more characters to the
\* end of the string.
WellFormedAsClaimed(d) ==
  \E n \in 1..Len(d) : TaggedAt(d, n) /\ Len(CommentAt(d, n)) >= 1

\* '#', one or more digits, one space, then any number of characters (none
\* included), none of them a line terminator, to the end of the string.
WellFormedAmended(d) ==
  \E n \in 1..Len(d) :
    /\ TaggedAt(d, n)
    /\ \A i \in 1..Len(CommentAt(d, n)) : CommentAt(d, n)[i] \notin LineTerminators

C5_Extraction ==
  Len(results) >= 1 /\ Len(results[1]) = 1 =>
    \A n \in 1..Len(TheDescription) :
      TaggedAt(TheDescription, n) =>
        /\ Out(1)[1].issueNumber = IssueAt(TheDescription, n)
        /\ Out(1)[1].comment = CommentAt(TheDescription, n)
        /\ Out(1)[1].repository = input[1].client \o <<"/">> \o input[1].project
        /\ Out(1)[1].id = repositories[Out(1)[1].repository]

\* An entry with a leading zero in its number and a leading space in its
\* comment was accepted, under an id that is the number 0.
C5_Witness ==
  /\ Len(results) >= 1
  /\ Len(results[1]) = 1
  /\ TheDescription = <<"#", "0", "1", " ", " ">>
  /\ Out(1)[1].id = IdNumberZero

\* ------------------------------------------------ claims on formatDuration
DigitValue(c) == CHOOSE v \in 0..9 : Digit[v + 1] = c

\* The number a string of digits denotes.
RECURSIVE StringToNat(_)
StringToNat(s) ==
  IF Len(s) = 0 THEN 0
  ELSE 10 * StringToNat(SubSeq(s, 1, Len(s) - 1)) + DigitValue(s[Len(s)])

\* l reads "<h>h <mm>m": the hours unpadded, the minutes in exactly two digits.
LabelShows(l, h, m) ==
  LET n == Len(l)
      hours == SubSeq(l, 1, n - 5)
  IN  /\ n >= 6
      /\ \A i \in 1..Len(hours) : IsDigit(hours[i])
      /\ Len(hours) > 1 => hours[1] # "0"
      /\ StringToNat(hours) = h
      /\ l[n - 4] = "h" /\ l[n - 3] = " " /\ l[n] = "m"
      /\ IsDigit(l[n - 2]) /\ IsDigit(l[n - 1])
      /\ StringToNat(<<l[n - 2], l[n - 1]>>) = m

\* C6: for ms >= 0 the label shows h and m with totalMinutes the integer
\* nearest to ms/60000 (a half rounds up), h = floor(totalMinutes / 60),
\* m = totalMinutes mod 60, 0 <= m <= 59, h >= 0 and 60*h + m = totalMinutes;
\* 59500 gives "0h 01m" and 0 gives "0h 00m".
C6_FormatDuration ==
  pc = "formatted" =>
    /\ \E totalMinutes \in 0..(ms \div 60000 + 1) :
         /\ 60000 * totalMinutes - 30000 <= ms
         /\ ms < 60000 * totalMinutes + 30000
         /\ \E h \in 0..totalMinutes, m \in 0..59 :
              /\ 60 * h + m = totalMinutes
              /\ LabelShows(label, h, m)
    /\ ms = 59500 => label = <<"0", "h", " ", "0", "1", "m">>
    /\ ms = 0 => label = <<"0", "h", " ", "0", "0", "m">>

\* 125.5 minutes were formatted: the half rounds up and the minutes are padded.
C6_Witness ==
  /\ pc = "formatted"
  /\ ms = 7530000
  /\ label = <<"2", "h", " ", "0", "6", "m">>

\* ------------------------------------------------------- claims on main
\* The number of records processEntries returned to main.
Records == IF results = <<>> THEN 0 ELSE Len(results[1])
Wrote(message) == \E i \in 1..Len(stdout) : stdout[i] = message
UpTo(n) == [i \in 1..n |-> i]

C9_SubmissionOnlyAfter ==
  /\ issued # <<>> =>
       /\ fetched = {"repos", "entries"}
       /\ Records > 0
       /\ keyPressed = "y"
       /\ ~options.help
       /\ ~options.config
       /\ ~Wrote("usage") /\ ~Wrote("Config updated.")
  /\ (\/ Wrote("usage")
      \/ Wrote("Config updated.")
      \/ Wrote("Looks like you didn't work at all.")
      \/ Wrote("Goodbye then.")
      \/ failure \in {"repos", "entries"})
       => pc \in Ended /\ issued = <<>> /\ submitted = <<>> /\ inFlight = {}
  /\ options.help => issued = <<>>
  /\ options.config => issued = <<>>
  /\ keyPressed \notin {"", "y"} => pc = "exited" /\ issued = <<>>

\* The first request was issued.
C9_Witness ==
  /\ pc = "logging"
  /\ issued = <<1>>
  /\ keyPressed = "y"

RECURSIVE Flatten(_)
Flatten(pages) == IF Len(pages) = 0 THEN <<>> ELSE Head(pages) \o Flatten(Tail(pages))

FetchPagesInOrder ==
  /\ requests = UpTo(Len(requests))
  /\ Len(served) <= Len(requests)
  /\ Len(requests) <= Len(served) + 1
  /\ \A i \in 1..Len(served) :
       served[i] = <<>> => i = Len(served) /\ Len(requests) = i
  /\ "entries" \in fetched =>
       /\ served # <<>>
       /\ served[Len(served)] = <<>>
       /\ input = Flatten(served)
  /\ failure = "entries" =>
       /\ "entries" \notin fetched
       /\ input = <<>> /\ results = <<>>
       /\ pc \in {"exited", "crashed"}

\* C10: the pages are requested in the order 1, 2, 3, ..., each after the
\* answer to the one before; no page is requested after the first empty one;
\* the result is the data of the pages before it, concatenated in page order;
\* once the empty page has arrived every awaiting call returns; a failed
\* request makes the fetch fail with no list at all.
C10_FetchPages ==
  /\ []FetchPagesInOrder
  /\ (pc = "returning") ~> (frames = <<>> /\ ret = Flatten(served))

\* The fetch returned two pages of different data, the third being empty.
C10_Witness ==
  /\ "entries" \in fetched
  /\ Len(served) = 3
  /\ served[1] # served[2]
  /\ Len(input) = Len(served[1]) + Len(served[2])

====
